---- MODULE Spec2Model ----
(***************************************************************************)
(* Model of gUI_new_tk_v3.py: the DahengCameraGUI class.                   *)
(*                                                                         *)
(* Three kinds of threads share the object's fields: the Tk control        *)
(* thread, which runs the handlers connect_camera, start_acquisition,      *)
(* stop_acquisition, close_camera and update_exposure; the acquisition     *)
(* threads (acquire_frames); and the processing threads (process_frames).  *)
(* A handler is a sequence of steps (ctl is its position) because the      *)
(* worker threads run between its statements.  The handlers are the        *)
(* public methods of the class: Spec invokes them in any state, GuiSpec    *)
(* only through a button that is enabled (btn).                            *)
(*                                                                         *)
(* frame_queue is queue.Queue(maxsize=2): put waits on not_full while the  *)
(* queue is full, get waits on not_empty while it is empty, each notifies  *)
(* one waiter of the other condition; frame_queue.queue.clear() empties    *)
(* the underlying deque without the mutex and without any notify.          *)
(***************************************************************************)
EXTENDS Integers, Sequences, FiniteSets, Bags

\* ---- bounds of the model ----
MaxThreads == 2     \* acquisition (and processing) threads alive at once
MaxFrames == 3      \* complete images the device hands out
MaxConnects == 2    \* device handles open at once
MaxContours == 2    \* contours findContours returns for one frame
MaxSaves == 2       \* image files written

\* ---- program constants ----
QueueMaxSize == 2           \* queue.Queue(maxsize=2)
DefaultExposure == 10000    \* self.current_exposure = 10000.0
ScaleFrom == 1000           \* Scale(from_=1000, ...)
ScaleTo == 100000           \* Scale(..., to=100000)
DisplayWidth == 1280        \* cv2.resize(numpy_image, (1280, 720)), scale_x
DisplayHeight == 720        \* cv2.resize(numpy_image, (1280, 720)), scale_y
NativeWidth == 4096         \* scale_x = 4096 / 1280
NativeHeight == 3000        \* scale_y = 3000 / 720

None == 0
Handles == 1..MaxConnects
NoFrame == [pos |-> 0, status |-> "NONE"]
\* values the operator asks the exposure slider for
ExposureInputs == {500, 50000, 200000}
\* calculate_centroid returning None, 0, 0 and cx_original, cy_original = None, None
NoCentroid == [found |-> FALSE, cx |-> 0, cy |-> 0]
NoOriginal == [found |-> FALSE, x |-> 0, y |-> 0]

VARIABLES
    cam,                \* self.cam: None or a device handle
    is_streaming,       \* self.is_streaming
    current_exposure,   \* self.current_exposure
    exposure_slider,    \* value held by self.exposure_slider
    btn,                \* state of the five buttons: TRUE is "normal"
    frame_queue,        \* self.frame_queue.queue, oldest first
    acq,                \* bag of the acquire_frames threads alive, each with its
                        \* position and its raw_image
    proc,               \* bag of the process_frames threads alive, likewise
    ctl,                \* position of the control thread inside a handler
    report,             \* text of the message shown last (a message box, or the line
                        \* update_exposure prints) by the handler invoked last,
                        \* "none" while it has shown none
    opened,             \* device handles open on the camera
    streamOn,           \* whether the stream of the handle in self.cam is on
    nextFrame,          \* complete images handed out so far
    pushed,             \* frames put on the queue so far
    displayed,          \* frames handed to image_label, in order
    exposure_write,     \* what the update_exposure called last did with
                        \* ExposureTime.set: "none", "ok" or "failed"
    saved,              \* image files written by save_image
    contours,           \* the contours findContours returns for the frame being
                        \* processed
    centroid,           \* what calculate_centroid returned for it
    original,           \* cx_original, cy_original
    denominators,       \* the denominators of the divisions calculate_centroid made
    frame_pc            \* position of process_frames inside lines 173-183

gui == <<cam, is_streaming, current_exposure, exposure_slider, btn>>
device == <<opened, streamOn, nextFrame>>
workers == <<acq, proc>>
history == <<pushed, displayed>>
panel == <<exposure_write, saved>>
analysis == <<contours, centroid, original, denominators, frame_pc>>
vars == <<gui, device, workers, history, frame_queue, ctl, report, panel, analysis>>

\* ---- the exposure slider: Scale(from_=1000, to=100000) ----
ScaleClamp(v) == IF v < ScaleFrom THEN ScaleFrom ELSE IF v > ScaleTo THEN ScaleTo ELSE v

\* a thread at position pc holding raw_image; threading.Thread(...).start()
\* adds one at the head of the loop, a return removes it
At(pc, raw_image) == [pc |-> pc, raw_image |-> raw_image]
Started == At("loop", NoFrame)
Add(threads, w) == threads (+) SetToBag({w})
Remove(threads, w) == threads (-) SetToBag({w})
Move(threads, w, v) == Add(Remove(threads, w), v)

\* the handle open_device_by_sn returns: one that is not open
NewHandle == CHOOSE h \in Handles \ opened : \A g \in Handles \ opened : h <= g

\* ---- __init__ ----
Init ==
    /\ cam = None
    /\ is_streaming = FALSE
    /\ current_exposure = DefaultExposure
    /\ exposure_slider = ScaleClamp(DefaultExposure)
    /\ btn = [connect |-> TRUE, start |-> FALSE, stop |-> FALSE, save |-> FALSE,
              close |-> FALSE]
    /\ frame_queue = <<>>
    /\ acq = EmptyBag
    /\ proc = EmptyBag
    /\ ctl = "idle"
    /\ report = "none"
    /\ opened = {}
    /\ streamOn = FALSE
    /\ nextFrame = 0
    /\ pushed = 0
    /\ displayed = <<>>
    /\ exposure_write = "none"
    /\ saved = 0
    /\ contours = {}
    /\ centroid = NoCentroid
    /\ original = NoOriginal
    /\ denominators = {}
    /\ frame_pc = "none"

\* ---- connect_camera ----
\* lines 75-81: enumeration and open_device_by_sn; no guard on self.cam
connect_camera_open ==
    /\ ctl = "idle"
    /\ \/ /\ report' = "No cameras found."
          /\ UNCHANGED <<cam, opened, streamOn, ctl>>
       \/ /\ report' = "Failed to connect"
          /\ UNCHANGED <<cam, opened, streamOn, ctl>>
       \/ /\ Cardinality(opened) < MaxConnects
          /\ cam' = NewHandle
          /\ opened' = opened \cup {NewHandle}
          /\ streamOn' = FALSE
          /\ report' = "none"
          /\ ctl' = "connect_configure"
    /\ UNCHANGED <<is_streaming, current_exposure, exposure_slider, btn, nextFrame,
                   workers, history, frame_queue, panel, analysis>>

\* lines 83-107: resolution, frame rate and exposure; a device call that
\* raises ends the handler in the except clause, self.cam stays as assigned
connect_camera_configure ==
    /\ ctl = "connect_configure"
    /\ ctl' = "idle"
    /\ \/ /\ report' = "Exposure Time Set"
          /\ btn' = [btn EXCEPT !.start = TRUE, !.connect = FALSE, !.close = TRUE]
       \/ /\ report' = "Failed to connect"
          /\ btn' = btn
    /\ UNCHANGED <<cam, is_streaming, current_exposure, exposure_slider, device, workers,
                   history, frame_queue, panel, analysis>>

\* ---- start_acquisition ----
\* line 111: the guard of start_acquisition
start_acquisition_guard == cam = None

\* lines 111-116: the guard and stream_on()
start_acquisition_stream_on ==
    /\ ctl = "idle"
    /\ IF start_acquisition_guard
       THEN /\ report' = "Camera not connected."
            /\ UNCHANGED <<streamOn, ctl>>
       ELSE \/ /\ report' = "Failed to start acquisition"
               /\ UNCHANGED <<streamOn, ctl>>
            \/ /\ BagCardinality(acq) < MaxThreads
               /\ BagCardinality(proc) < MaxThreads
               /\ streamOn' = TRUE
               /\ report' = "none"
               /\ ctl' = "start_flag"
    /\ UNCHANGED <<gui, opened, nextFrame, workers, history, frame_queue, panel,
                   analysis>>

\* lines 117-121
start_acquisition_flag ==
    /\ ctl = "start_flag"
    /\ is_streaming' = TRUE
    /\ btn' = [btn EXCEPT !.stop = TRUE, !.save = TRUE, !.start = FALSE]
    /\ report' = "Acquisition Started"
    /\ ctl' = "start_acquisition_thread"
    /\ UNCHANGED <<cam, current_exposure, exposure_slider, device, workers, history,
                   frame_queue, panel, analysis>>

\* lines 123-124
start_acquisition_thread ==
    /\ ctl = "start_acquisition_thread"
    /\ acq' = Add(acq, Started)
    /\ ctl' = "start_processing_thread"
    /\ UNCHANGED <<gui, device, proc, history, frame_queue, report, panel, analysis>>

\* lines 126-129
start_processing_thread ==
    /\ ctl = "start_processing_thread"
    /\ proc' = Add(proc, Started)
    /\ ctl' = "idle"
    /\ UNCHANGED <<gui, device, acq, history, frame_queue, report, panel, analysis>>

\* ---- stop_acquisition ----
\* the guard without its test of the streaming flag
stop_acquisition_guard_no_flag == cam = None

\* line 135: the guard of stop_acquisition
stop_acquisition_guard == cam = None \/ ~is_streaming

\* lines 135-139: the guard and stream_off()
stop_acquisition_stream_off ==
    /\ ctl = "idle"
    /\ IF stop_acquisition_guard
       THEN /\ report' = "none"
            /\ UNCHANGED <<streamOn, ctl>>
       ELSE \/ /\ report' = "Failed to stop acquisition"
               /\ UNCHANGED <<streamOn, ctl>>
            \/ /\ streamOn' = FALSE
               /\ report' = "none"
               /\ ctl' = "stop_flag"
    /\ UNCHANGED <<gui, opened, nextFrame, workers, history, frame_queue, panel,
                   analysis>>

\* lines 140-143
stop_acquisition_flag ==
    /\ ctl = "stop_flag"
    /\ is_streaming' = FALSE
    /\ btn' = [btn EXCEPT !.start = TRUE, !.stop = FALSE]
    /\ report' = "Acquisition Stopped"
    /\ ctl' = "stop_clear"
    /\ UNCHANGED <<cam, current_exposure, exposure_slider, device, workers, history,
                   frame_queue, panel, analysis>>

\* line 145: self.frame_queue.queue.clear(), no lock taken, nobody notified
stop_acquisition_clear ==
    /\ ctl = "stop_clear"
    /\ frame_queue' = <<>>
    /\ ctl' = "idle"
    /\ UNCHANGED <<gui, device, workers, history, report, panel, analysis>>

\* ---- close_camera ----
\* line 268: the guard of close_camera
close_camera_guard == cam # None

\* lines 268-271: the guard and, when streaming, stream_off()
close_camera_stream_off ==
    /\ ctl = "idle"
    /\ IF ~close_camera_guard
       THEN /\ report' = "none"
            /\ UNCHANGED <<streamOn, ctl>>
       ELSE \/ /\ is_streaming
               /\ report' = "Failed to close camera"
               /\ UNCHANGED <<streamOn, ctl>>
            \/ /\ streamOn' = IF is_streaming THEN FALSE ELSE streamOn
               /\ report' = "none"
               /\ ctl' = "close_device"
    /\ UNCHANGED <<gui, opened, nextFrame, workers, history, frame_queue, panel,
                   analysis>>

\* line 272: close_device() releases the handle, or raises and the handler
\* ends in the except clause
close_camera_close_device ==
    /\ ctl = "close_device"
    /\ \/ /\ report' = "Failed to close camera"
          /\ ctl' = "idle"
          /\ UNCHANGED <<opened, streamOn>>
       \/ /\ opened' = opened \ {cam}
          /\ streamOn' = FALSE
          /\ report' = "none"
          /\ ctl' = "close_cam"
    /\ UNCHANGED <<gui, nextFrame, workers, history, frame_queue, panel, analysis>>

\* lines 273-274
close_camera_cam ==
    /\ ctl = "close_cam"
    /\ cam' = None
    /\ ctl' = "close_flag"
    /\ UNCHANGED <<is_streaming, current_exposure, exposure_slider, btn, device,
                   workers, history, frame_queue, report, panel, analysis>>

\* lines 275-281
close_camera_flag ==
    /\ ctl = "close_flag"
    /\ is_streaming' = FALSE
    /\ btn' = [connect |-> TRUE, start |-> FALSE, stop |-> FALSE, save |-> FALSE,
               close |-> FALSE]
    /\ report' = "Camera closed."
    /\ ctl' = "idle"
    /\ UNCHANGED <<cam, current_exposure, exposure_slider, device, workers, history,
                   frame_queue, panel, analysis>>

\* ---- update_exposure, called by the slider with the value it holds ----
\* line 205: the guard of update_exposure
update_exposure_guard == cam # None /\ is_streaming

\* lines 207-208 in the other order: the value is stored only once the device
\* has taken it
update_exposure_stored_after_write(value, write) ==
    IF update_exposure_guard /\ write = "ok" THEN value ELSE current_exposure

\* lines 205-207: inside the guard self.current_exposure is assigned before
\* ExposureTime.set is called; outside the guard nothing is assigned
update_exposure_stored(value, write) ==
    IF update_exposure_guard THEN value ELSE current_exposure

\* lines 209 and 211: the line update_exposure prints
update_exposure_printed(write) ==
    IF ~update_exposure_guard THEN "none"
    ELSE IF write = "ok" THEN "Exposure Time Updated"
    ELSE "Failed to update exposure time"

\* lines 55-57 and 203-211: the slider keeps the value inside its range and
\* calls update_exposure with it; ExposureTime.set may raise, which is printed
update_exposure ==
    /\ ctl = "idle"
    /\ \E value \in ExposureInputs, write \in {"ok", "failed"} :
          /\ exposure_slider' = ScaleClamp(value)
          /\ current_exposure' = update_exposure_stored(ScaleClamp(value), write)
          /\ exposure_write' = IF update_exposure_guard THEN write ELSE "none"
          /\ report' = update_exposure_printed(write)
    /\ UNCHANGED <<cam, is_streaming, btn, device, workers, history, frame_queue, ctl,
                   saved, analysis>>

\* ---- save_image ----
\* save_image without its test of the flag
save_image_guard_absent == FALSE

\* line 238: the guard of save_image
save_image_guard == ~is_streaming

\* lines 236-264: outside streaming a warning and nothing else; otherwise a
\* frame is taken from the device and, when it is complete, converts and the
\* operator names a file, written to that file
save_image ==
    /\ ctl = "idle"
    /\ IF save_image_guard
       THEN /\ report' = "Acquisition is not running."
            /\ UNCHANGED <<nextFrame, saved>>
       ELSE \/ /\ cam # None
               /\ streamOn
               /\ nextFrame < MaxFrames
               /\ nextFrame' = nextFrame + 1
               /\ \/ /\ saved < MaxSaves
                     /\ saved' = saved + 1
                     /\ report' = "Image saved"
                  \/ /\ saved' = saved
                     /\ report' \in {"Failed to convert image to RGB.",
                                     "Failed to get numpy array.",
                                     "Failed to save image", "none"}
            \/ /\ cam # None
               /\ streamOn
               /\ report' = "Incomplete frame."
               /\ UNCHANGED <<nextFrame, saved>>
            \/ /\ report' = "Failed to save image"
               /\ UNCHANGED <<nextFrame, saved>>
    /\ UNCHANGED <<gui, opened, streamOn, workers, history, frame_queue, ctl,
                   exposure_write, analysis>>

\* ---- queue.Queue: the mutex and the condition variables ----
\* the mutex is held by a get that has seen the queue non-empty and has not
\* taken its item yet
mutex_free == \A w \in BagToSet(proc) : w.pc # "got"

\* put that lets one item too many in
put_must_wait_late == Len(frame_queue) > QueueMaxSize

\* put waits while the queue holds maxsize items
put_must_wait == Len(frame_queue) >= QueueMaxSize

\* not_empty.notify(): one thread waiting in get, if any, is woken
notify_not_empty(p) ==
    IF BagIn(At("get_wait", NoFrame), p)
    THEN Move(p, At("get_wait", NoFrame), At("get", NoFrame))
    ELSE p

\* not_full.notify(): one thread waiting in put, if any, is woken; the result
\* is the set of outcomes, one for each thread that may be the one woken
notify_not_full(a) ==
    LET waiting == {w \in BagToSet(a) : w.pc = "put_wait"}
    IN  IF waiting = {} THEN {a}
        ELSE {Move(a, w, At("put", w.raw_image)) : w \in waiting}

\* ---- acquire_frames ----
\* line 151: while self.is_streaming; the thread returns when it is false
acquire_frames_loop ==
    \E w \in BagToSet(acq) :
        /\ w.pc = "loop"
        /\ acq' = IF is_streaming THEN Move(acq, w, At("get_image", NoFrame))
                                  ELSE Remove(acq, w)
        /\ UNCHANGED <<gui, device, proc, history, frame_queue, ctl, report, panel,
                       analysis>>

\* line 154 without its test: every frame is kept
acquire_frames_keep_all(status) == TRUE

\* line 154: the frame is kept only when its status is not INCOMPLETE
acquire_frames_keep(status) == status # "INCOMPLETE"

\* lines 153-155 and 157-158: get_image() hands out an image while the stream
\* of self.cam is on; with self.cam None, the stream off or a transport
\* fault, the exception is printed and the loop goes on
acquire_frames_get_image ==
    \E w \in BagToSet(acq) :
        /\ w.pc = "get_image"
        /\ \/ /\ cam # None
              /\ streamOn
              /\ \E status \in {"COMPLETE", "INCOMPLETE"} :
                    IF acquire_frames_keep(status)
                    THEN /\ nextFrame < MaxFrames
                         /\ nextFrame' = nextFrame + 1
                         /\ acq' = Move(acq, w, At("put", [pos |-> 0, status |-> status]))
                    ELSE /\ nextFrame' = nextFrame
                         /\ acq' = Move(acq, w, Started)
           \/ /\ acq' = Move(acq, w, Started)
              /\ nextFrame' = nextFrame
        /\ UNCHANGED <<gui, opened, streamOn, proc, history, frame_queue, ctl, report, panel,
                       analysis>>

\* line 156: self.frame_queue.put(raw_image); pos numbers the frames in the
\* order they are put
acquire_frames_put ==
    \E w \in BagToSet(acq) :
        /\ w.pc = "put"
        /\ mutex_free
        /\ IF put_must_wait
           THEN /\ acq' = Move(acq, w, At("put_wait", w.raw_image))
                /\ UNCHANGED <<frame_queue, pushed, proc>>
           ELSE /\ frame_queue' = Append(frame_queue, [w.raw_image EXCEPT !.pos = pushed + 1])
                /\ pushed' = pushed + 1
                /\ acq' = Move(acq, w, Started)
                /\ proc' = notify_not_empty(proc)
        /\ UNCHANGED <<gui, device, displayed, ctl, report, panel, analysis>>

\* ---- process_frames ----
\* line 162: while self.is_streaming; the thread returns when it is false
process_frames_loop ==
    \E w \in BagToSet(proc) :
        /\ w.pc = "loop"
        /\ proc' = IF is_streaming THEN Move(proc, w, At("get", NoFrame))
                                   ELSE Remove(proc, w)
        /\ UNCHANGED <<gui, device, acq, history, frame_queue, ctl, report, panel,
                       analysis>>

\* line 164: self.frame_queue.get() takes the mutex and looks at the size
process_frames_get ==
    \E w \in BagToSet(proc) :
        /\ w.pc = "get"
        /\ mutex_free
        /\ proc' = Move(proc, w, At(IF Len(frame_queue) = 0 THEN "get_wait" ELSE "got",
                                    NoFrame))
        /\ UNCHANGED <<gui, device, acq, history, frame_queue, ctl, report, panel,
                       analysis>>

\* line 164: get() takes the oldest item and notifies not_full; when clear()
\* emptied the deque in between, popleft raises and the exception is printed
process_frames_get_item ==
    \E w \in BagToSet(proc) :
        /\ w.pc = "got"
        /\ IF Len(frame_queue) = 0
           THEN /\ proc' = Move(proc, w, Started)
                /\ UNCHANGED <<frame_queue, acq>>
           ELSE /\ proc' = Move(proc, w, At("process", Head(frame_queue)))
                /\ frame_queue' = Tail(frame_queue)
                /\ acq' \in notify_not_full(acq)
        /\ UNCHANGED <<gui, device, history, ctl, report, panel, analysis>>

\* the try statement around the loop instead of inside it: a frame that
\* fails ends the thread
process_frames_next_outside_loop(p, w, shown) ==
    IF shown THEN Move(p, w, Started) ELSE Remove(p, w)

\* lines 162-163, 167, 171 and 200-201: the try statement is inside the loop,
\* so after a frame, shown or not, the thread is at the head of the loop
process_frames_next(p, w, shown) == Move(p, w, Started)

\* lines 165-201: convert, resize, analyse, draw and hand the image to
\* image_label; a None from the conversion or an exception drops the frame
process_frames_display ==
    \E w \in BagToSet(proc) :
        /\ w.pc = "process"
        /\ \/ /\ displayed' = Append(displayed, w.raw_image.pos)
              /\ proc' = process_frames_next(proc, w, TRUE)
           \/ /\ displayed' = displayed
              /\ proc' = process_frames_next(proc, w, FALSE)
        /\ UNCHANGED <<gui, device, acq, pushed, frame_queue, ctl, report, panel,
                       analysis>>

\* ---- the threads ----
Control ==
    \/ connect_camera_open
    \/ connect_camera_configure
    \/ start_acquisition_stream_on
    \/ start_acquisition_flag
    \/ start_acquisition_thread
    \/ start_processing_thread
    \/ stop_acquisition_stream_off
    \/ stop_acquisition_flag
    \/ stop_acquisition_clear
    \/ close_camera_stream_off
    \/ close_camera_close_device
    \/ close_camera_cam
    \/ close_camera_flag

Acquisition ==
    \/ acquire_frames_loop
    \/ acquire_frames_get_image
    \/ acquire_frames_put

Processing ==
    \/ process_frames_loop
    \/ process_frames_get
    \/ process_frames_get_item
    \/ process_frames_display

\* The pipeline: the lifecycle handlers and the worker threads.  The slider
\* handler writes current_exposure and exposure_slider only, which no action
\* of the pipeline reads, and is left to SliderSpec.
Next ==
    \/ Control
    \/ Acquisition
    \/ Processing

Spec == Init /\ [][Next]_vars

\* The handlers as the window invokes them: a click on a button that is
\* enabled.
click_connect == btn.connect /\ connect_camera_open
click_start == btn.start /\ start_acquisition_stream_on
click_stop == btn.stop /\ stop_acquisition_stream_off
click_close == btn.close /\ close_camera_stream_off

GuiNext ==
    \/ click_connect
    \/ connect_camera_configure
    \/ click_start
    \/ start_acquisition_flag
    \/ start_acquisition_thread
    \/ start_processing_thread
    \/ click_stop
    \/ stop_acquisition_flag
    \/ stop_acquisition_clear
    \/ click_close
    \/ close_camera_close_device
    \/ close_camera_cam
    \/ close_camera_flag
    \/ Acquisition
    \/ Processing

GuiSpec == Init /\ [][GuiNext]_vars

\* The control thread alone: the lifecycle handlers and the slider.  The
\* worker threads write neither self.cam, self.is_streaming nor the exposure.
SliderNext ==
    \/ Control
    \/ update_exposure

SliderSpec == Init /\ [][SliderNext]_vars

\* The control thread with the Save Image button: the lifecycle handlers and
\* save_image.
PanelNext ==
    \/ Control
    \/ save_image

PanelSpec == Init /\ [][PanelNext]_vars

\* ---- process_frames, lines 173-183: one frame through calculate_centroid ----
\* A contour is the outline findContours returns for a filled rectangle of
\* the thresholded image: its corner (x, y) and its extent w by h, measured
\* between the centres of the border pixels.  A single pixel gives w = h = 0
\* (one point), a line of pixels w = 0 or h = 0 (two points).
Contours == [x : {0, 3, 1270}, y : {0, 4, 710}, w : {0, 1, 4, 9}, h : {0, 1, 5}]

\* the sets of at most n contours
RECURSIVE ContourSets(_)
ContourSets(n) ==
    IF n = 0 THEN {{}}
    ELSE LET fewer == ContourSets(n - 1)
         IN  fewer \cup {cs \cup {c} : cs \in fewer, c \in Contours}

\* cv2.contourArea and cv2.arcLength(contour, True) of such an outline
contourArea(c) == c.w * c.h
arcLength(c) == 2 * (c.w + c.h)

\* cv2.moments: m00 is the area; m10 and m01 are kept doubled, so that they
\* stay integers: m10 = m00 * (x + w/2), m01 = m00 * (y + h/2)
moments(c) ==
    [m00 |-> c.w * c.h,
     m10_twice |-> c.w * c.h * (2 * c.x + c.w),
     m01_twice |-> c.w * c.h * (2 * c.y + c.h)]

\* line 224: max(contours, key=cv2.contourArea); among contours of the same
\* area, the one findContours lists first, which may be any of them
largest_contour(cs) == {c \in cs : \A d \in cs : contourArea(d) <= contourArea(c)}

\* int(n / d) for n >= 0: the quotient truncated; a zero d raises
\* ZeroDivisionError and no value is used
Quotient(n, d) == IF d = 0 THEN 0 ELSE n \div d

\* the test of line 226 left out
moments_usable_always(m) == TRUE

\* line 226: if moments["m00"] != 0
moments_usable(m) == m.m00 # 0

\* lines 225-234 for the contour selected: the centroid and the denominators
\* of the divisions of lines 227, 228 and 232
calculate_centroid_of(c) ==
    LET m == moments(c)
    IN  IF moments_usable(m)
        THEN [centroid |-> [found |-> TRUE,
                            cx |-> Quotient(m.m10_twice, 2 * m.m00),
                            cy |-> Quotient(m.m01_twice, 2 * m.m00)],
              denominators |-> {m.m00, arcLength(c) * arcLength(c)}]
        ELSE [centroid |-> NoCentroid, denominators |-> {}]

\* lines 218-234: the results calculate_centroid may return for the contours cs
calculate_centroid(cs) ==
    IF cs = {} THEN {[centroid |-> NoCentroid, denominators |-> {}]}
    ELSE {calculate_centroid_of(c) : c \in largest_contour(cs)}

\* lines 178-181: int(cx_resized * scale_x), int(cy_resized * scale_y); the
\* product is not negative and int() truncates it
rescale(c) ==
    IF c.found
    THEN [found |-> TRUE,
          x |-> Quotient(c.cx * NativeWidth, DisplayWidth),
          y |-> Quotient(c.cy * NativeHeight, DisplayHeight)]
    ELSE NoOriginal

\* a processing thread has taken the first frame off the queue and resized
\* it (line 173); the contours are those findContours will find in it
FrameInit ==
    /\ cam = 1
    /\ is_streaming = TRUE
    /\ current_exposure = DefaultExposure
    /\ exposure_slider = ScaleClamp(DefaultExposure)
    /\ btn = [connect |-> FALSE, start |-> FALSE, stop |-> TRUE, save |-> TRUE,
              close |-> TRUE]
    /\ frame_queue = <<>>
    /\ acq = SetToBag({Started})
    /\ proc = SetToBag({At("process", [pos |-> 1, status |-> "COMPLETE"])})
    /\ ctl = "idle"
    /\ report = "Acquisition Started"
    /\ opened = {1}
    /\ streamOn = TRUE
    /\ nextFrame = 1
    /\ pushed = 1
    /\ displayed = <<>>
    /\ exposure_write = "none"
    /\ saved = 0
    /\ contours \in ContourSets(MaxContours)
    /\ centroid = NoCentroid
    /\ original = NoOriginal
    /\ denominators = {}
    /\ frame_pc = "resized"

\* line 174: centroid, diameter, circularity = self.calculate_centroid(...)
process_frames_calculate_centroid ==
    /\ frame_pc = "resized"
    /\ \E r \in calculate_centroid(contours) :
          /\ centroid' = r.centroid
          /\ denominators' = r.denominators
    /\ frame_pc' = "analysed"
    /\ UNCHANGED <<gui, device, workers, history, frame_queue, ctl, report, panel,
                   contours, original>>

\* lines 176-183: the centroid in the coordinates of the sensor
process_frames_rescale ==
    /\ frame_pc = "analysed"
    /\ original' = rescale(centroid)
    /\ frame_pc' = "rescaled"
    /\ UNCHANGED <<gui, device, workers, history, frame_queue, ctl, report, panel,
                   contours, centroid, denominators>>

FrameNext ==
    \/ process_frames_calculate_centroid
    \/ process_frames_rescale

FrameSpec == FrameInit /\ [][FrameNext]_vars

\* ---- claims ----
\* C1: in every reachable state the frame queue holds between 0 and 2 frames.
C1_QueueWithinCapacity ==
    Len(frame_queue) >= 0 /\ Len(frame_queue) <= QueueMaxSize

\* C1, the case: the queue is full and an acquisition thread waits in put.
C1_FullQueueBlocksPut ==
    Len(frame_queue) = QueueMaxSize /\ \E w \in BagToSet(acq) : w.pc = "put_wait"

\* C2: once stop_acquisition has returned and every thread has completed the
\* call it was in, so that none can take a step without a later start or a
\* further frame, both kinds of thread have left their loop.
C2_ThreadsExitAfterStop ==
    (report = "Acquisition Stopped" /\ ctl = "idle"
        /\ ~ENABLED (Acquisition \/ Processing))
    => (acq = EmptyBag /\ proc = EmptyBag)

\* C3: the frames handed to the display are in the order they were put on
\* the queue, none of them twice.
C3_DisplayedInPushOrder ==
    \A i, j \in 1..Len(displayed) : i < j => displayed[i] < displayed[j]

\* the control thread is about to invoke a handler in the state Connected,
\* Streaming or Stopped: a device is held and the handler that ran last is a
\* connect, a start or a stop that succeeded
Connected == cam # None /\ ~is_streaming /\ report = "Exposure Time Set"
Streaming == cam # None /\ is_streaming /\ report = "Acquisition Started"
Stopped == cam # None /\ ~is_streaming /\ report = "Acquisition Stopped"

\* C4: start_acquisition invoked with no device held, or while streaming, is
\* rejected: it reports an error, returns at once, spawns no thread and leaves
\* the flag, the handle, the queue and the threads as they were.
C4_StartRejectedUnlessConnectedOrStopped ==
    [][(start_acquisition_stream_on /\ (cam = None \/ Streaming))
        => /\ ctl' = "idle"
           /\ report' \in {"Camera not connected.", "Failed to start acquisition"}
           /\ UNCHANGED <<cam, is_streaming, frame_queue, acq, proc>>]_vars

\* C5: connect_camera invoked in Connected, Streaming or Stopped is rejected:
\* it reports an error, returns at once, keeps the handle in self.cam and
\* opens no further device connection.
C5_ConnectRejectedUnlessIdle ==
    [][(connect_camera_open /\ (Connected \/ Streaming \/ Stopped))
        => /\ ctl' = "idle"
           /\ report' \in {"No cameras found.", "Failed to connect"}
           /\ UNCHANGED <<cam, opened, is_streaming, frame_queue, acq, proc>>]_vars

\* C6: a connect whose configuration step fails holds no device handle when it
\* returns, so that a start that follows is rejected by its guard.
C6_FailedConfigureReleasesDevice ==
    [][(connect_camera_configure /\ report' = "Failed to connect")
        => /\ cam' = None
           /\ cam \notin opened'
           /\ start_acquisition_guard']_vars

\* C7: a close whose close_device fails still ends Closed: the flag is false
\* and the handle dropped when the handler returns.
C7_FailedReleaseStillCloses ==
    [][(close_camera_close_device /\ report' = "Failed to close camera")
        => /\ ctl' = "idle"
           /\ ~is_streaming'
           /\ cam' = None]_vars

\* C8: a close invoked while streaming ends with the flag false, the device
\* released and the queue empty.
C8_CloseWhileStreamingStopsFirst ==
    [][(close_camera_flag /\ is_streaming)
        => /\ ~is_streaming'
           /\ cam' = None
           /\ opened' \subseteq opened
           /\ frame_queue' = <<>>]_vars

\* the second of two calls in a row: the handler that ran last is the same
\* one and succeeded
StopAgain == stop_acquisition_stream_off /\ report = "Acquisition Stopped"
CloseAgain == close_camera_stream_off /\ report = "Camera closed."

\* C9: a stop straight after a successful stop, and a close straight after a
\* successful close, returns at once, shows no message and changes nothing.
C9_SecondCallChangesNothing ==
    [][(StopAgain \/ CloseAgain)
        => /\ ctl' = "idle"
           /\ report' = "none"
           /\ UNCHANGED <<gui, device, workers, history, frame_queue>>]_vars

\* C9, the case: a successful stop has returned, stop is invoked again and
\* returns through its guard.
C9_StopInvokedAgain ==
    /\ stop_acquisition_guard
    /\ ENABLED (StopAgain /\ ctl' = "idle" /\ report' = "none")

\* C10: a slider move to v leaves clamp(v), a value in [1000, 100000], in
\* self.current_exposure.
C10_SetExposureStoresClamped ==
    [][update_exposure
        => /\ current_exposure' >= ScaleFrom
           /\ current_exposure' <= ScaleTo
           /\ current_exposure' = exposure_slider']_vars

\* C11: a slider move stores its value in self.current_exposure in every
\* lifecycle state, and writes it to the device exactly when a device is held
\* and the flag is set.
C11_SetExposureAlwaysStores ==
    [][update_exposure
        => /\ current_exposure' = exposure_slider'
           /\ (exposure_write' # "none") <=> (cam # None /\ is_streaming)]_vars

\* C12: when ExposureTime.set raises while streaming, the failure is printed,
\* self.current_exposure holds the value asked for, and the flag, the handle,
\* the threads and the queue are as they were.
C12_FailedWriteKeepsValue ==
    [][(update_exposure /\ exposure_write' = "failed")
        => /\ report' = "Failed to update exposure time"
           /\ current_exposure' = exposure_slider'
           /\ is_streaming'
           /\ UNCHANGED <<cam, is_streaming, workers, frame_queue, device>>]_vars

\* C12, the case: the write of a value other than the default has failed
\* while streaming and the value is the one stored.
C12_WriteFailedWhileStreaming ==
    /\ exposure_write = "failed"
    /\ is_streaming
    /\ current_exposure = 50000
    /\ report = "Failed to update exposure time"

\* r is an integer nearest to n / d
Nearest(r, n, d) == 2 * n - d <= 2 * d * r /\ 2 * d * r <= 2 * n + d

\* C13: the native centroid of a display centroid (cx, cy) is cx * 4096 / 1280
\* and cy * 3000 / 720, each rounded to the nearest integer.
C13_NativeCentroidRounded ==
    (frame_pc = "rescaled" /\ centroid.found)
    => /\ original.found
       /\ Nearest(original.x, centroid.cx * NativeWidth, DisplayWidth)
       /\ Nearest(original.y, centroid.cy * NativeHeight, DisplayHeight)

\* C15: calculate_centroid finds nothing when there is no contour or the
\* contour selected has a zero m00, and no division it makes has a zero
\* denominator.
C15_NotFoundAndNoZeroDivision ==
    frame_pc # "resized"
    => /\ (contours = {} \/ \E c \in largest_contour(contours) : moments(c).m00 = 0)
            => ~centroid.found
       /\ 0 \notin denominators

\* C15, the case: the contours found are all degenerate, the one selected has
\* a zero m00, and calculate_centroid has returned None.
C15_DegenerateContourSelected ==
    /\ frame_pc = "analysed"
    /\ contours # {}
    /\ \A c \in contours : arcLength(c) = 0
    /\ ~centroid.found

\* C14: save_image invoked while the flag is not set shows the warning that
\* acquisition is not running, writes no file, takes no frame from the device
\* and leaves the flag, the handle and the queue as they were.
C14_SaveRejectedWhenNotStreaming ==
    [][(save_image /\ ~is_streaming)
        => /\ report' = "Acquisition is not running."
           /\ UNCHANGED <<saved, device, cam, is_streaming, frame_queue, workers>>]_vars

\* C14, the case: after a stop, with the device still held and the Save Image
\* button still enabled, save_image has been invoked and has returned with
\* the warning.
C14_SaveInvokedAfterStop ==
    /\ report = "Acquisition is not running."
    /\ ctl = "idle"
    /\ cam # None
    /\ ~is_streaming
    /\ btn.save

\* C16: every frame on the queue, waiting to be put, or taken off the queue by
\* a processing thread is complete: an incomplete one is never put.
C16_OnlyCompleteFramesQueued ==
    /\ \A i \in 1..Len(frame_queue) : frame_queue[i].status = "COMPLETE"
    /\ \A w \in BagToSet(acq) : w.pc \in {"put", "put_wait"} => w.raw_image.status = "COMPLETE"
    /\ \A w \in BagToSet(proc) : w.pc = "process" => w.raw_image.status = "COMPLETE"

\* C16, the case: frames have gone through; one is on the queue and a
\* processing thread holds one it has taken off.
C16_FramesQueuedAndPopped ==
    /\ Len(frame_queue) > 0
    /\ \E w \in BagToSet(proc) : w.pc = "process" /\ w.raw_image.status = "COMPLETE"

\* the step of a processing thread that drops its frame
process_frames_fault == process_frames_display /\ displayed' = displayed

\* C17: a frame whose processing fails is dropped and nothing more: the queue
\* is as it was, no processing thread has gone, and the thread is at the head
\* of its loop, from where it goes to the next get while the flag is set.
C17_FaultDropsOneFrame ==
    [][process_frames_fault
        => /\ frame_queue' = frame_queue
           /\ BagCardinality(proc') = BagCardinality(proc)
           /\ BagIn(Started, proc')
           /\ UNCHANGED <<is_streaming, acq, pushed>>]_vars

\* C17, the case: while streaming a processing thread holds a frame and the
\* step that drops it can be taken.
C17_FrameAboutToFail ==
    /\ is_streaming
    /\ \E w \in BagToSet(proc) : w.pc = "process"
    /\ ENABLED (process_frames_fault /\ BagIn(Started, proc'))

\* C18: at most one acquisition thread and at most one processing thread are
\* alive.
C18_OneWorkerOfEachKind ==
    BagCardinality(acq) <= 1 /\ BagCardinality(proc) <= 1

\* C19: from the return of stop_acquisition until a further handler is
\* invoked the queue is empty.
C19_QueueEmptyAfterStop ==
    (report = "Acquisition Stopped" /\ ctl = "idle") => frame_queue = <<>>

\* C20: whenever the flag is set, self.cam holds a device handle that is open.
C20_StreamingImpliesDevice ==
    is_streaming => (cam # None /\ cam \in opened)

====
